---- MODULE Spec2Model ----
(***************************************************************************)
(* TweetStream frontend server (frontend/server.py): the request handler   *)
(* TweetStreamHandler (do_GET, serve_file) and the startup block, as a     *)
(* state machine.  Request targets, file names, header values and file     *)
(* contents are strings, handled character by character as the Python code *)
(* does (==, endswith, [1:], urlparse, open/read/decode/encode).           *)
(***************************************************************************)
EXTENDS Integers, Sequences, FiniteSets, TLC

\* How many requests one run of the accept loop is followed for.
MaxRequests == 2

\* PORT = 8080
PORT == 8080

------------------------------------------------------------------------------
(* Strings *)

Min(S) == CHOOSE m \in S : \A n \in S : m <= n
Max(S) == CHOOSE m \in S : \A n \in S : m >= n

\* s[i] (1-based)
CharAt(s, i) == SubSeq(s, i, i)

Chars(s) == {CharAt(s, i) : i \in 1..Len(s)}

\* s[i-1:] in Python, i being 1-based here
From(s, i) == IF i > Len(s) THEN "" ELSE SubSeq(s, i, Len(s))

\* s[:i-1] in Python: the characters before position i
Before(s, i) == IF i <= 1 THEN "" ELSE SubSeq(s, 1, i - 1)

\* str.find(c, start): the first position >= from holding c, 0 when there is none
Find(s, c, from) ==
    LET hits == {i \in from..Len(s) : CharAt(s, i) = c}
    IN  IF hits = {} THEN 0 ELSE Min(hits)

\* str.rfind(c): the last position holding c, 0 when there is none
RFind(s, c) ==
    LET hits == {i \in 1..Len(s) : CharAt(s, i) = c}
    IN  IF hits = {} THEN 0 ELSE Max(hits)

StartsWith(s, prefix) ==
    Len(s) >= Len(prefix) /\ SubSeq(s, 1, Len(prefix)) = prefix

\* str.endswith(suffix)
EndsWith(s, suffix) ==
    Len(s) >= Len(suffix) /\ SubSeq(s, Len(s) - Len(suffix) + 1, Len(s)) = suffix

\* str.lstrip(c)
RECURSIVE LStrip(_, _)
LStrip(s, c) == IF Len(s) > 0 /\ CharAt(s, 1) = c THEN LStrip(From(s, 2), c) ELSE s

\* str.split(sep) for a one-character separator
RECURSIVE Split(_, _)
Split(s, sep) ==
    LET i == Find(s, sep, 1)
    IN  IF i = 0 THEN <<s>> ELSE <<Before(s, i)>> \o Split(From(s, i + 1), sep)

------------------------------------------------------------------------------
(* urllib.parse.urlparse, as do_GET uses it *)

AlphaChars == Chars("abcdefghijklmnopqrstuvwxyz")
SchemeChars == AlphaChars \cup Chars("0123456789+-.")
UsesParams == {"", "ftp", "hdl", "prospero", "http", "imap", "https", "shttp",
               "rtsp", "rtspu", "sip", "sips", "mms", "sftp", "tel"}

\* urlsplit's scheme step: <<scheme, rest>>
SplitScheme(url) ==
    LET i == Find(url, ":", 1)
    IN  IF i > 1 /\ CharAt(url, 1) \in AlphaChars /\ Chars(Before(url, i)) \subseteq SchemeChars
        THEN <<Before(url, i), From(url, i + 1)>>
        ELSE <<"", url>>

\* _splitnetloc(url, 2): <<netloc, rest>>, the netloc ending at the first of / ? #
SplitNetloc(url) ==
    LET ends == {i \in 3..Len(url) : CharAt(url, i) \in {"/", "?", "#"}}
        delim == IF ends = {} THEN Len(url) + 1 ELSE Min(ends)
    IN  <<SubSeq(url, 3, delim - 1), From(url, delim)>>

\* urlsplit raises ValueError("Invalid IPv6 URL") on an unbalanced bracket
BadNetloc(netloc) ==
    \/ "[" \in Chars(netloc) /\ "]" \notin Chars(netloc)
    \/ "]" \in Chars(netloc) /\ "[" \notin Chars(netloc)

\* _splitparams(url): the path without the parameters of its last segment
SplitParams(url) ==
    LET i == IF "/" \in Chars(url) THEN Find(url, ";", RFind(url, "/")) ELSE Find(url, ";", 1)
    IN  IF i = 0 THEN url ELSE Before(url, i)

\* As urlparse, the query and the fragment left in the path
urlparseWholeTarget(url) ==
    [raised |-> FALSE, scheme |-> "", netloc |-> "", path |-> url, query |-> "", fragment |-> ""]

\* urlparse(url): raised, or the components; do_GET reads .path only
urlparse(url) ==
    LET sch == SplitScheme(url)
        hasNet == StartsWith(sch[2], "//")
        net == IF hasNet THEN SplitNetloc(sch[2]) ELSE <<"", sch[2]>>
        h == Find(net[2], "#", 1)
        noFrag == IF h = 0 THEN net[2] ELSE Before(net[2], h)
        q == Find(noFrag, "?", 1)
        noQuery == IF q = 0 THEN noFrag ELSE Before(noFrag, q)
        p == IF sch[1] \in UsesParams /\ ";" \in Chars(noQuery)
             THEN SplitParams(noQuery) ELSE noQuery
    IN  [raised |-> hasNet /\ BadNetloc(net[1]),
         scheme |-> sch[1],
         netloc |-> net[1],
         path |-> p,
         query |-> IF q = 0 THEN "" ELSE From(noFrag, q + 1),
         fragment |-> IF h = 0 THEN "" ELSE From(net[2], h + 1)]

------------------------------------------------------------------------------
(* do_GET's routing *)

\* As IsHealth, the path misspelt
IsHealthMisspelt(path) == path = "/healthz"

IsHealth(path) == path = "/health"
IsIndex(path) == path = "/" \/ path = "/index.html"
IsCss(path) == EndsWith(path, ".css")
\* As IsJs, the suffix without its dot and letter
IsJsAnyS(path) == EndsWith(path, "s")

IsJs(path) == EndsWith(path, ".js")

\* The condition of one of do_GET's four if statements
Matches(rule, path) ==
    CASE rule = "health" -> IsHealth(path)
      [] rule = "index" -> IsIndex(path)
      [] rule = "css" -> IsCss(path)
      [] rule = "js" -> IsJs(path)

\* What the body of that if statement does: the health response, or the
\* arguments of its serve_file call (path[1:] drops the first character)
Branch(rule, path) ==
    CASE rule = "health" -> [kind |-> "health", filename |-> "", content_type |-> ""]
      [] rule = "index" -> [kind |-> "index", filename |-> "index.html", content_type |-> "text/html"]
      [] rule = "css" -> [kind |-> "css", filename |-> From(path, 2), content_type |-> "text/css"]
      [] rule = "js" -> [kind |-> "js", filename |-> From(path, 2), content_type |-> "application/javascript"]

\* As Fallback, answering with a page of its own
FallbackOwnPage == [kind |-> "fallback", filename |-> "404.html", content_type |-> "text/html"]

\* The final statement of do_GET, reached when no if statement returned
Fallback == [kind |-> "fallback", filename |-> "index.html", content_type |-> "text/html"]

\* The if statements tried in the given order, the first that matches returning
RECURSIVE RouteIn(_, _)
RouteIn(order, path) ==
    IF order = <<>> THEN Fallback
    ELSE IF Matches(Head(order), path) THEN Branch(Head(order), path)
    ELSE RouteIn(Tail(order), path)

\* The order the code has them in
CodeOrder == <<"health", "index", "css", "js">>

Route(path) == RouteIn(CodeOrder, path)

------------------------------------------------------------------------------
(* The filesystem the process reads: directories and files by absolute     *)
(* path, a path being the sequence of its components.  File contents are   *)
(* bytes, written as ASCII characters; BadByte stands for the byte 0xFF,   *)
(* which no UTF-8 text holds.                                              *)

BadByte == "^"

Absent == [type |-> "absent", readable |-> FALSE, eio |-> FALSE, data |-> ""]
Dir == [type |-> "dir", readable |-> TRUE, eio |-> FALSE, data |-> ""]
File(bytes) == [type |-> "file", readable |-> TRUE, eio |-> FALSE, data |-> bytes]
Unreadable(bytes) == [type |-> "file", readable |-> FALSE, eio |-> FALSE, data |-> bytes]
Failing(bytes) == [type |-> "file", readable |-> TRUE, eio |-> TRUE, data |-> bytes]

\* os.chdir('/app')
AppRoot == <<"app">>

\* The states the deployment can leave each entry of the root in
IndexStates == {Absent, File("<html>hi</html>"), File("<p>\r\n</p>"), Unreadable("<html>hi</html>"),
                File("<p>" \o BadByte), Failing("<html>hi</html>")}
CssStates == {Absent, File("body{}"), File("a{}\r\nb{}\r"), Dir}
DStates == {Absent, File("d"), Dir}

Filesystems == [index : IndexStates, css : CssStates, d : DStates]

\* The entry at an absolute path.  /app/a.js and /app/d/s.css (when d is a
\* directory) are plain files; /s.css is a file outside the root.
Node(f, abs) ==
    CASE abs = <<>> -> Dir
      [] abs = AppRoot -> Dir
      [] abs = <<"s.css">> -> File("secret{}")
      [] abs = AppRoot \o <<"index.html">> -> f.index
      [] abs = AppRoot \o <<"s.css">> -> f.css
      [] abs = AppRoot \o <<"a.js">> -> File("console.log(1)")
      [] abs = AppRoot \o <<"d">> -> f.d
      [] abs = AppRoot \o <<"d", "s.css">> -> IF f.d = Dir THEN File("d{}") ELSE Absent
      [] OTHER -> Absent

Parent(abs) == IF abs = <<>> THEN <<>> ELSE SubSeq(abs, 1, Len(abs) - 1)

\* Path resolution from directory cur over the components left: the entry
\* reached, or the errno of the failing step
RECURSIVE Walk(_, _, _)
Walk(f, cur, comps) ==
    IF comps = <<>> THEN [errno |-> "", at |-> cur]
    ELSE IF Node(f, cur).type # "dir" THEN [errno |-> "ENOTDIR", at |-> cur]
    ELSE IF Head(comps) \in {"", "."} THEN Walk(f, cur, Tail(comps))
    ELSE IF Head(comps) = ".." THEN Walk(f, Parent(cur), Tail(comps))
    ELSE IF Node(f, Append(cur, Head(comps))).type = "absent" THEN [errno |-> "ENOENT", at |-> cur]
    ELSE Walk(f, Append(cur, Head(comps)), Tail(comps))

\* A name is looked up from the root directory when it begins with '/', and
\* from the working directory otherwise
Lookup(f, dir, name) ==
    IF name = "" THEN [errno |-> "ENOENT", at |-> dir]
    ELSE Walk(f, IF StartsWith(name, "/") THEN <<>> ELSE dir, Split(name, "/"))

\* Text mode with newline=None: '\r\n' and '\r' are read as '\n'
RECURSIVE Newlines(_)
Newlines(s) ==
    IF s = "" THEN ""
    ELSE IF StartsWith(s, "\r\n") THEN "\n" \o Newlines(From(s, 3))
    ELSE IF StartsWith(s, "\r") THEN "\n" \o Newlines(From(s, 2))
    ELSE CharAt(s, 1) \o Newlines(From(s, 2))

\* str.encode('utf-8'): the text here is ASCII, each character one byte
Encode(text) == text

\* with open(filename, 'r', encoding='utf-8') as f: content = f.read()
\* The exception raised with its str(), or the text read.
OpenRead(f, dir, filename) ==
    LET r == Lookup(f, dir, filename)
        n == Node(f, r.at)
        q == "'" \o filename \o "'"
        Raise(e, m) == [exc |-> e, msg |-> m, content |-> ""]
    IN  CASE r.errno = "ENOENT" -> Raise("FileNotFoundError", "[Errno 2] No such file or directory: " \o q)
          [] r.errno = "ENOTDIR" -> Raise("NotADirectoryError", "[Errno 20] Not a directory: " \o q)
          [] OTHER ->
             IF n.type = "dir" THEN Raise("IsADirectoryError", "[Errno 21] Is a directory: " \o q)
             ELSE IF ~n.readable THEN Raise("PermissionError", "[Errno 13] Permission denied: " \o q)
             ELSE IF n.eio THEN Raise("OSError", "[Errno 5] Input/output error")
             ELSE IF BadByte \in Chars(n.data)
                  THEN Raise("UnicodeDecodeError",
                             "'utf-8' codec can't decode byte 0xff in position "
                             \o ToString(Find(n.data, BadByte, 1) - 1) \o ": invalid start byte")
             ELSE [exc |-> "", msg |-> "", content |-> Newlines(n.data)]

------------------------------------------------------------------------------
(* The process *)

\* Request targets the accept loop is sent
Targets == {"/health", "/health?x", "/health/",
            "/", "/#f", "/index.html", "/index.html?x#y",
            "/s.css", "/s.css?v", "/s.css;p", "/d/s.css", "/../s.css", "////s.css",
            "/a.js", "/m.js",
            "/about", "/logo.png", "?x", "//[", "http://h/s.css", "http://[/s.css"}

\* BaseHTTPRequestHandler.parse_request leaves the target in self.path.
\* Releases of the standard library since the fix of gh-87389 first reduce
\* several leading slashes to one; earlier ones leave the target as sent.
parse_request(target) ==
    IF StartsWith(target, "//") THEN {target, "/" \o LStrip(target, "/")} ELSE {target}

VARIABLES
    pc,        \* the main block: "start", "chdir", "serving", "aborted"
    cwd,       \* the working directory of the process
    nchdir,    \* the os.chdir calls made so far
    fs,        \* the filesystem
    nreq,      \* the requests accepted so far
    hpc,       \* the handler: where it is in do_GET / serve_file, "idle" between requests
    selfpath,  \* self.path
    calls,     \* what do_GET has invoked for this request: the health response or serve_file(filename, content_type)
    opened,    \* the names passed to open() for this request
    content,   \* serve_file's content
    exc,       \* str(e) of the exception serve_file's except clause is handling
    hdrbuf,    \* self._headers_buffer: the status and header lines not yet written
    wire,      \* what wfile.write has put on the connection for this request
    broken,    \* the client's end of the connection is gone: every write raises
    wfault,    \* a step sending the response has raised for this request
    prev       \* the last request that was answered with no such failure

vars == <<pc, cwd, nchdir, fs, nreq, hpc, selfpath, calls, opened, content, exc,
          hdrbuf, wire, broken, wfault, prev>>

process == <<pc, cwd, nchdir, fs>>
request == <<selfpath, calls, opened, content, exc, hdrbuf, wire, broken, wfault>>

NoRequest == [path |-> "", served |-> FALSE, opened |-> <<>>, wire |-> <<>>]

Init ==
    /\ pc = "start"
    /\ cwd = <<>>
    /\ nchdir = 0
    /\ fs \in Filesystems
    /\ nreq = 0
    /\ hpc = "idle"
    /\ selfpath = ""
    /\ calls = <<>>
    /\ opened = <<>>
    /\ content = ""
    /\ exc = ""
    /\ hdrbuf = <<>>
    /\ wire = <<>>
    /\ broken = FALSE
    /\ wfault = FALSE
    /\ prev = NoRequest

\* Response lines and writes
StatusLine(code) == [k |-> "status", a |-> code, b |-> ""]
HeaderLine(name, value) == [k |-> "header", a |-> name, b |-> value]
HeadWrite(lines) == [k |-> "head", lines |-> lines, data |-> ""]
BodyWrite(bytes) == [k |-> "body", lines |-> <<>>, data |-> bytes]

\* send_response(code); send_header(...)...: lines appended to the buffer
Buffered(lines) == hdrbuf \o lines

\* A write to wfile goes through unless the client has gone, which it may
\* do at any moment; from then on every write raises.
\* end_headers() after those lines: flush_headers writes the whole buffer
\* in one wfile.write and empties it after the write; when the write raises
\* the buffer keeps its lines.  Then to ok, or to failed.
SendHeaders(lines, ok, failed) ==
    \E gone \in {broken, TRUE} :
        /\ broken' = gone
        /\ IF ~gone
           THEN /\ wire' = Append(wire, HeadWrite(Buffered(lines)))
                /\ hdrbuf' = <<>>
                /\ hpc' = ok
                /\ UNCHANGED wfault
           ELSE /\ hdrbuf' = Buffered(lines)
                /\ wfault' = TRUE
                /\ hpc' = failed
                /\ UNCHANGED wire

\* self.wfile.write(bytes): written, or raising
WriteBody(bytes, ok, failed) ==
    \E gone \in {broken, TRUE} :
        /\ broken' = gone
        /\ IF ~gone
           THEN /\ wire' = Append(wire, BodyWrite(bytes))
                /\ hpc' = ok
                /\ UNCHANGED wfault
           ELSE /\ wfault' = TRUE
                /\ hpc' = failed
                /\ UNCHANGED wire

\* str(e) of the BrokenPipeError a write to a closed connection raises, and
\* of the MemoryError encoding a text can raise
BrokenPipe == "[Errno 32] Broken pipe"
OutOfMemory == ""

\* As Chdir, the call left out
ChdirLeftOut ==
    /\ pc = "start"
    /\ pc' = "chdir"
    /\ UNCHANGED <<cwd, nchdir, fs, nreq, hpc, prev>>
    /\ UNCHANGED request

\* os.chdir('/app')
Chdir ==
    /\ pc = "start"
    /\ cwd' = AppRoot
    /\ nchdir' = nchdir + 1
    /\ pc' = "chdir"
    /\ UNCHANGED <<fs, nreq, hpc, prev>>
    /\ UNCHANGED request

\* socketserver.TCPServer(("", PORT), TweetStreamHandler), then the two
\* prints and serve_forever(); a bind that fails raises out of the block.
Bind ==
    /\ pc = "chdir"
    /\ PORT \in 1..65535
    /\ \E bound \in BOOLEAN : pc' = IF bound THEN "serving" ELSE "aborted"
    /\ UNCHANGED <<cwd, nchdir, fs, nreq, hpc, prev>>
    /\ UNCHANGED request

\* serve_forever accepts a connection and the handler parses its request line
Accept ==
    /\ pc = "serving"
    /\ hpc = "idle"
    /\ nreq < MaxRequests
    /\ nreq' = nreq + 1
    /\ \E t \in Targets : selfpath' \in parse_request(t)
    /\ calls' = <<>>
    /\ opened' = <<>>
    /\ content' = ""
    /\ exc' = ""
    /\ hdrbuf' = <<>>
    /\ wire' = <<>>
    /\ broken' = FALSE
    /\ wfault' = FALSE
    /\ hpc' = "do_GET"
    /\ UNCHANGED <<process, prev>>

\* do_GET up to the branch taken: urlparse, then the first matching rule
DoGET ==
    /\ hpc = "do_GET"
    /\ LET parsed_path == urlparse(selfpath)
           r == Route(parsed_path.path)
       IN  IF parsed_path.raised
           THEN /\ hpc' = "escaped"
                /\ UNCHANGED calls
           ELSE /\ calls' = Append(calls, [fn |-> IF r.kind = "health" THEN "health" ELSE "serve_file",
                                           filename |-> r.filename,
                                           content_type |-> r.content_type])
                /\ hpc' = IF r.kind = "health" THEN "health" ELSE "serve_file"
    /\ UNCHANGED <<process, nreq, prev, selfpath, opened, content, exc, hdrbuf, wire, broken, wfault>>

\* The health branch: send_response(200), send_header, end_headers
HealthHeaders ==
    /\ hpc = "health"
    /\ SendHeaders(<<StatusLine(200), HeaderLine("Content-type", "text/plain")>>,
                   "health_body", "escaped")
    /\ UNCHANGED <<process, nreq, prev, selfpath, calls, opened, content, exc>>

\* self.wfile.write(b'healthy'); return
HealthBody ==
    /\ hpc = "health_body"
    /\ WriteBody("healthy", "returned", "escaped")
    /\ UNCHANGED <<process, nreq, prev, selfpath, calls, opened, content, exc, hdrbuf>>

\* The arguments of the serve_file call in progress
filename == calls[Len(calls)].filename
content_type == calls[Len(calls)].content_type

\* As ExceptClause, the second clause catching OSError only
ExceptClauseOSError(e) ==
    CASE e = "" -> "send_200"
      [] e = "FileNotFoundError" -> "except_404"
      [] e \in {"UnicodeDecodeError", "MemoryError"} -> "escaped"
      [] OTHER -> "except_500"

\* Where serve_file's try statement goes on an exception of class e raised
\* in its body ("" for none): except FileNotFoundError, except Exception
ExceptClause(e) ==
    CASE e = "" -> "send_200"
      [] e = "FileNotFoundError" -> "except_404"
      [] OTHER -> "except_500"

\* serve_file: open, read and decode, into the try block's next statement
\* or the except clause of the exception raised
ServeOpen ==
    /\ hpc = "serve_file"
    /\ opened' = Append(opened, filename)
    /\ LET r == OpenRead(fs, cwd, filename)
       IN  /\ content' = r.content
           /\ exc' = r.msg
           /\ hpc' = ExceptClause(r.exc)
    /\ UNCHANGED <<process, nreq, prev, selfpath, calls, hdrbuf, wire, broken, wfault>>

\* send_response(200) ... end_headers(), inside the try block
Send200 ==
    /\ hpc = "send_200"
    /\ SendHeaders(<<StatusLine(200),
                     HeaderLine("Content-type", content_type \o "; charset=utf-8"),
                     HeaderLine("Cache-Control", "no-cache")>>,
                   "body_200", ExceptClause("BrokenPipeError"))
    /\ exc' = IF hpc' = "except_500" THEN BrokenPipe ELSE exc
    /\ UNCHANGED <<process, nreq, prev, selfpath, calls, opened, content>>

\* self.wfile.write(content.encode('utf-8')), the try block's last statement
Body200 ==
    /\ hpc = "body_200"
    /\ \/ /\ WriteBody(Encode(content), "returned", ExceptClause("BrokenPipeError"))
          /\ exc' = IF hpc' = "returned" THEN exc ELSE BrokenPipe
       \/ /\ hpc' = ExceptClause("MemoryError")
          /\ exc' = OutOfMemory
          /\ wfault' = TRUE
          /\ UNCHANGED <<wire, broken>>
    /\ UNCHANGED <<process, nreq, prev, selfpath, calls, opened, content, hdrbuf>>

\* except FileNotFoundError: the 404 status and header
Except404 ==
    /\ hpc = "except_404"
    /\ SendHeaders(<<StatusLine(404), HeaderLine("Content-type", "text/plain")>>,
                   "body_404", "escaped")
    /\ UNCHANGED <<process, nreq, prev, selfpath, calls, opened, content, exc>>

Body404 ==
    /\ hpc = "body_404"
    /\ WriteBody("File not found", "returned", "escaped")
    /\ UNCHANGED <<process, nreq, prev, selfpath, calls, opened, content, exc, hdrbuf>>

\* except Exception as e: the 500 status and header
Except500 ==
    /\ hpc = "except_500"
    /\ SendHeaders(<<StatusLine(500), HeaderLine("Content-type", "text/plain")>>,
                   "body_500", "escaped")
    /\ UNCHANGED <<process, nreq, prev, selfpath, calls, opened, content, exc>>

Body500 ==
    /\ hpc = "body_500"
    /\ WriteBody("Server error: " \o exc, "returned", "escaped")
    /\ UNCHANGED <<process, nreq, prev, selfpath, calls, opened, content, exc, hdrbuf>>

\* do_GET is over, returned or left by an exception (which socketserver's
\* handle_error reports); the connection is closed, the handler object is
\* dropped and serve_forever goes on
Finish ==
    /\ hpc \in {"returned", "escaped"}
    /\ hpc' = "idle"
    /\ prev' = IF hpc = "returned" /\ ~wfault
               THEN [path |-> selfpath, served |-> TRUE, opened |-> opened, wire |-> wire]
               ELSE prev
    /\ selfpath' = ""
    /\ calls' = <<>>
    /\ opened' = <<>>
    /\ content' = ""
    /\ exc' = ""
    /\ hdrbuf' = <<>>
    /\ wire' = <<>>
    /\ broken' = FALSE
    /\ wfault' = FALSE
    /\ UNCHANGED <<process, nreq>>

Next ==
    \/ Chdir
    \/ Bind
    \/ Accept
    \/ DoGET
    \/ HealthHeaders
    \/ HealthBody
    \/ ServeOpen
    \/ Send200
    \/ Body200
    \/ Except404
    \/ Body404
    \/ Except500
    \/ Body500
    \/ Finish

Spec == Init /\ [][Next]_vars

------------------------------------------------------------------------------
(* Properties *)

\* The parsed path of the request in hand
Parsed == urlparse(selfpath)
Routed == hpc \notin {"idle", "do_GET"} /\ ~Parsed.raised

\* do_GET has returned and every step sending the response went through
Answered == hpc = "returned" /\ ~wfault

\* A response of one header block and a body
Response(code, headers, body) ==
    <<HeadWrite(<<StatusLine(code)>> \o headers), BodyWrite(body)>>

TextPlain == <<HeaderLine("Content-type", "text/plain")>>
FileHeaders(ctype) == <<HeaderLine("Content-type", ctype \o "; charset=utf-8"),
                        HeaderLine("Cache-Control", "no-cache")>>
NotFound == Response(404, TextPlain, "File not found")

\* The status lines put on the connection for this request
StatusLines ==
    {<<i, j>> \in (1..Len(wire)) \X (1..4) :
        j <= Len(wire[i].lines) /\ wire[i].lines[j].k = "status"}

\* The entry a file name leads to from the working directory
Target(name) == Lookup(fs, cwd, name)
TargetAbsent(name) == Target(name).errno \in {"ENOENT", "ENOTDIR"}
\* A regular file that can be opened and read and holds UTF-8 text
TargetReadable(name) ==
    /\ Target(name).errno = ""
    /\ LET n == Node(fs, Target(name).at)
       IN  n.type = "file" /\ n.readable /\ ~n.eio /\ BadByte \notin Chars(n.data)
TargetBytes(name) == Node(fs, Target(name).at).data

\* C1: a GET whose parsed path is exactly '/health' never reaches
\* serve_file or open, whatever the filesystem holds, and either returns
\* having sent exactly 200, Content-type text/plain, body 'healthy', or was
\* cut short by a write to the connection raising.
C1_HealthAlwaysHealthy ==
    (hpc # "idle" /\ ~Parsed.raised /\ Parsed.path = "/health") =>
        /\ opened = <<>>
        /\ hpc \in {"do_GET", "health", "health_body", "returned", "escaped"}
        /\ \A i \in 1..Len(calls) : calls[i].fn = "health"
        /\ hpc = "returned" => wire = Response(200, TextPlain, "healthy")
        /\ hpc = "escaped" => broken

C1_Witness ==
    /\ hpc = "returned"
    /\ selfpath = "/health?x"
    /\ fs.index = Absent
    /\ wire = Response(200, TextPlain, "healthy")

\* C2: a GET whose parsed path p ends in '.css' (in '.js'), the name p[1:]
\* being a readable file, is answered 200 with Content-type 'text/css;
\* charset=utf-8' ('application/javascript; charset=utf-8'), Cache-Control
\* no-cache and a body equal to the bytes of that file.
C2_AssetServedVerbatim ==
    \A suffix \in {".css", ".js"} :
        (/\ Answered
         /\ ~Parsed.raised
         /\ EndsWith(Parsed.path, suffix)
         /\ TargetReadable(From(Parsed.path, 2))) =>
            wire = Response(200,
                            FileHeaders(IF suffix = ".css" THEN "text/css" ELSE "application/javascript"),
                            TargetBytes(From(Parsed.path, 2)))

\* C3: a GET on any route that reads a file, answered while the file it
\* names is absent (no such entry, or a component of the name that is
\* missing or is a regular file), gets 404, text/plain, 'File not found'.
C3_AbsentIs404 ==
    (Answered /\ opened # <<>> /\ TargetAbsent(opened[1])) => wire = NotFound

WithQueryOrFragment(t, u) ==
    Len(u) > Len(t) /\ StartsWith(u, t) /\ CharAt(u, Len(t) + 1) \in {"?", "#"}

\* C5: a request whose target is that of the request before it followed by
\* a query string and/or a fragment (or the other way round) takes the same
\* route, opens the same file and is answered the same.
C5_QueryAndFragmentIgnored ==
    (/\ Answered
     /\ prev.served
     /\ WithQueryOrFragment(prev.path, selfpath) \/ WithQueryOrFragment(selfpath, prev.path)) =>
        /\ Route(Parsed.path) = Route(urlparse(prev.path).path)
        /\ opened = prev.opened
        /\ wire = prev.wire

C5_Witness ==
    /\ Answered
    /\ selfpath = "/s.css?v"
    /\ prev.served /\ prev.path = "/s.css"
    /\ opened = <<"s.css">>
    /\ wire = Response(200, FileHeaders("text/css"), "body{}")

C7_ChdirOnceBeforeServing ==
    /\ [](nchdir <= 1)
    /\ []((pc \in {"chdir", "serving", "aborted"} \/ hpc # "idle" \/ nreq > 0) =>
            (nchdir = 1 /\ cwd = AppRoot))
    /\ [][pc # "start" => (cwd' = cwd /\ nchdir' = nchdir)]_vars

C7_Witness ==
    /\ hpc = "send_200"
    /\ nreq = MaxRequests
    /\ opened = <<"a.js">>
    /\ nchdir = 1 /\ cwd = AppRoot

IsUnder(abs, dir) == Len(abs) >= Len(dir) /\ SubSeq(abs, 1, Len(dir)) = dir

\* C8: every name passed to open is a relative name, and the entry it
\* leads to lies inside the root directory.
C8_OpensInsideRoot ==
    \A i \in 1..Len(opened) :
        /\ ~StartsWith(opened[i], "/")
        /\ Target(opened[i]).errno = "" => IsUnder(Target(opened[i]).at, AppRoot)

\* C9: a request puts at most one status line on the connection, and
\* exactly one when do_GET returns.
C9_OneStatusLine ==
    /\ Cardinality(StatusLines) <= 1
    /\ hpc = "returned" => Cardinality(StatusLines) = 1

\* The four if statements in every order
Orders ==
    {[i \in 1..Len(CodeOrder) |-> f[CodeOrder[i]]] :
        f \in Permutations({CodeOrder[i] : i \in 1..Len(CodeOrder)})}

\* C10: a parsed path meets at most one of the four conditions (exactly one
\* of the five routes), what do_GET invokes for it is what the if
\* statements give in any order, and do_GET invokes one thing only: the
\* health response or one serve_file call.
C10_RoutesExclusive ==
    /\ Routed => (Len(calls) = 1 /\ Len(opened) <= 1)
    /\ (Routed /\ hpc \in {"health", "serve_file"}) =>
          /\ Cardinality({rule \in {"health", "index", "css", "js"} : Matches(rule, Parsed.path)}) <= 1
          /\ \A order \in Orders :
                 LET r == RouteIn(order, Parsed.path)
                 IN  /\ calls[1].fn = (IF r.kind = "health" THEN "health" ELSE "serve_file")
                     /\ calls[1].filename = r.filename
                     /\ calls[1].content_type = r.content_type

C10_Witness ==
    /\ hpc = "serve_file"
    /\ Parsed.path = "/d/s.css"
    /\ calls = <<[fn |-> "serve_file", filename |-> "d/s.css", content_type |-> "text/css"]>>

====
